---- MODULE Spec2Model ----
(***************************************************************************)
(* KdlIdentifier (src/src/identifier.rs): a KDL identifier holding its     *)
(* decoded value, an optional verbatim representation and a source span.   *)
(*                                                                         *)
(* Text is a sequence of characters; a character is a one-element TLA+     *)
(* string.  The alphabet keeps one character of every class the identifier *)
(* grammar distinguishes: a letter, a digit, a space, the double quote,    *)
(* the backslash and the slash, plus one two-byte letter (U+00E9) that     *)
(* only programmatic inputs use, so that byte length and character count   *)
(* differ.                                                                 *)
(*                                                                         *)
(* The model is built with the `span` and `v1` features on; `v1-fallback`  *)
(* is the build choice v1_fallback, fixed in Init.                         *)
(***************************************************************************)
EXTENDS Naturals, Sequences, FiniteSets

\* Longest text handed to parse.
MaxLen == 4

QUOTE == "\""
BSLASH == "\\"
SPACE == " "
SLASH == "/"
EACUTE == "U+00E9"

Letters == {"a", EACUTE}
Digits == {"1"}
Alphabet == {"a", "1", SPACE, QUOTE, BSLASH, SLASH}

\* Every text of at most MaxLen characters: the inputs of parse.
Texts == UNION {[1..n -> Alphabet] : n \in 0..MaxLen}

\* Option<T>: None is the empty sequence, Some(x) the one-element sequence.
None == <<>>
Some(x) == <<x>>

\* str::len(): the length in bytes of the UTF-8 encoding.
RECURSIVE ByteLen(_)
ByteLen(s) ==
  IF s = <<>> THEN 0
  ELSE (IF Head(s) = EACUTE THEN 2 ELSE 1) + ByteLen(Tail(s))

(***************************************************************************)
(* The current-generation (v2) grammar's identifier rule and the string    *)
(* literal formatter live in v2_parser and KdlValue, outside               *)
(* identifier.rs; they are modelled from the specification (4.1, 4.2).     *)
(***************************************************************************)

\* A bare token: a letter first, then letters and digits; no whitespace, no
\* quote, no backslash, no slash.
IsPlainIdent(s) ==
  /\ Len(s) >= 1
  /\ s[1] \in Letters
  /\ \A i \in 1..Len(s) : s[i] \in Letters \cup Digits

\* Decodes the body of a quoted token under the escapes `esc` allows after a
\* backslash.  An unescaped quote inside the body, an escape the grammar does
\* not know and a backslash at the end are failures.
RECURSIVE Unescape(_, _)
Unescape(body, esc) ==
  IF body = <<>> THEN [ok |-> TRUE, text |-> <<>>]
  ELSE IF Head(body) = QUOTE THEN [ok |-> FALSE, text |-> <<>>]
  ELSE IF Head(body) = BSLASH THEN
    IF Len(body) >= 2 /\ body[2] \in esc
    THEN LET rest == Unescape(SubSeq(body, 3, Len(body)), esc)
         IN  [ok |-> rest.ok, text |-> IF rest.ok THEN <<body[2]>> \o rest.text ELSE <<>>]
    ELSE [ok |-> FALSE, text |-> <<>>]
  ELSE LET rest == Unescape(Tail(body), esc)
       IN  [ok |-> rest.ok, text |-> IF rest.ok THEN <<Head(body)>> \o rest.text ELSE <<>>]

\* The decoded value of a whole token: a bare token decodes to itself, a
\* quote-delimited one to its unescaped body; anything else is no token.
DecodeToken(s, esc) ==
  IF IsPlainIdent(s) THEN [ok |-> TRUE, text |-> s]
  ELSE IF Len(s) >= 2 /\ s[1] = QUOTE /\ s[Len(s)] = QUOTE
  THEN Unescape(SubSeq(s, 2, Len(s) - 1), esc)
  ELSE [ok |-> FALSE, text |-> <<>>]

\* Result<T, E>.
Ok(x) == [ok |-> TRUE, val |-> x]
Err(e) == [ok |-> FALSE, err |-> e]

V2Escapes == {QUOTE, BSLASH}

\* v2_parser::try_parse(v2_parser::identifier, s): the whole input must be one
\* identifier token; the identifier keeps the token text as its repr and the
\* token's byte range as its span.
try_parse_identifier(s) ==
  LET d == DecodeToken(s, V2Escapes)
  IN  IF d.ok
      THEN Ok([value |-> d.text, repr |-> Some(s), span |-> <<0, ByteLen(s)>>])
      ELSE Err([grammar |-> "v2", input |-> s])

\* Display of KdlValue::String(s): the bare token when s is one, else the
\* quoted literal with quote and backslash escaped.
RECURSIVE EscapeString(_)
EscapeString(s) ==
  IF s = <<>> THEN <<>>
  ELSE (IF Head(s) \in {QUOTE, BSLASH} THEN <<BSLASH, Head(s)>> ELSE <<Head(s)>>)
       \o EscapeString(Tail(s))

KdlValueString(s) ==
  IF IsPlainIdent(s) THEN s ELSE <<QUOTE>> \o EscapeString(s) \o <<QUOTE>>

(***************************************************************************)
(* The legacy (v1) grammar is the external kdl 4 crate.  It accepts the    *)
(* same bare tokens over this alphabet and knows one more escape, `\/`.    *)
(***************************************************************************)
V1Escapes == {QUOTE, BSLASH, SLASH}

\* <kdlv1::KdlIdentifier as FromStr>::from_str
kdlv1_from_str(s) ==
  LET d == DecodeToken(s, V1Escapes)
  IN  IF d.ok
      THEN Ok([v1value |-> d.text, v1repr |-> Some(s),
               v1span |-> [offset |-> 0, len |-> ByteLen(s)]])
      ELSE Err([v1grammar |-> "v1", v1input |-> s])


\* impl From<kdlv1::KdlError> for KdlError: a legacy diagnostic carried over.
KdlError_from_v1(e) == [grammar |-> e.v1grammar, input |-> e.v1input]

(***************************************************************************)
(* KdlIdentifier: [value, repr, span], span being <<offset, length>>.      *)
(***************************************************************************)

\* eq, had the span been compared too.
eq_with_span(a, b) == a.value = b.value /\ a.repr = b.repr /\ a.span = b.span

\* impl PartialEq: value and repr, the span left out.
eq(a, b) == a.value = b.value /\ a.repr = b.repr

\* What the derived Hash of String and Option<String> write to a hasher.
HashStr(s) == <<[write |-> "bytes", data |-> s], [write |-> "u8", data |-> <<"ff">>]>>
HashOption(o) ==
  IF o = None THEN <<[write |-> "discriminant", data |-> <<"0">>]>>
  ELSE <<[write |-> "discriminant", data |-> <<"1">>]>> \o HashStr(o[1])

\* impl Hash: value, then repr; the span left out.
hash(a) == HashStr(a.value) \o HashOption(a.repr)

value(self) == self.value
\* set_value, had it reset the repr as well.
set_value_clears_repr(self, v) == [self EXCEPT !.value = v, !.repr = None]
set_value(self, v) == [self EXCEPT !.value = v]
span(self) == self.span
set_span(self, sp) == [self EXCEPT !.span = sp]
repr(self) == self.repr
\* set_repr, had it kept a repr already there.
set_repr_keeps_old(self, r) == IF self.repr = None THEN [self EXCEPT !.repr = Some(r)] ELSE self
set_repr(self, r) == [self EXCEPT !.repr = Some(r)]
\* clear_format, had it left the repr in place.
clear_format_keeps_repr(self) == self
clear_format(self) == [self EXCEPT !.repr = None]
autoformat(self) == [self EXCEPT !.repr = None]

\* Display, had it always formatted the value.
Display_ignores_repr(self) == KdlValueString(value(self))

\* impl Display: the repr verbatim when there is one, else the value
\* formatted as a KDL string value.
Display(self) ==
  IF self.repr # None THEN self.repr[1] ELSE KdlValueString(value(self))

\* len, had it measured the value.
len_of_value(self) == ByteLen(self.value)
len(self) == ByteLen(Display(self))
is_empty(self) == len(self) = 0

\* impl From<kdlv1::KdlIdentifier>
from_kdlv1(x) ==
  [value |-> x.v1value, repr |-> x.v1repr, span |-> <<x.v1span.offset, x.v1span.len>>]

\* KdlIdentifier::parse_v1
parse_v1(s) ==
  LET ret == kdlv1_from_str(s)
  IN  IF ret.ok THEN Ok(from_kdlv1(ret.val)) ELSE Err(KdlError_from_v1(ret.err))

\* parse, had map_err kept the legacy error.
parse_legacy_error(fallback, s) ==
  LET r2 == try_parse_identifier(s)
  IN  IF ~fallback THEN [result |-> r2, calls |-> <<"v2">>]
      ELSE IF r2.ok THEN [result |-> r2, calls |-> <<"v2">>]
      ELSE [result |-> parse_v1(s), calls |-> <<"v2", "v1">>]

\* parse, had the legacy grammar been tried first.
parse_legacy_first(fallback, s) ==
  LET r2 == try_parse_identifier(s)
  IN  IF ~fallback THEN [result |-> r2, calls |-> <<"v2">>]
      ELSE LET r1 == parse_v1(s)
           IN  IF r1.ok THEN [result |-> r1, calls |-> <<"v1">>]
               ELSE [result |-> r2, calls |-> <<"v1", "v2">>]

\* parse, had a failure fallen back to the unvalidated conversion.
parse_lenient(fallback, s) ==
  LET r2 == try_parse_identifier(s)
  IN  [result |-> IF r2.ok THEN r2
                  ELSE Ok([value |-> s, repr |-> None, span |-> <<0, 0>>]),
       calls |-> <<"v2">>]

\* KdlIdentifier::parse, with the parsers it invoked, in order.  fallback is
\* the `v1-fallback` feature.
parse(fallback, s) ==
  LET r2 == try_parse_identifier(s)
  IN  IF ~fallback THEN [result |-> r2, calls |-> <<"v2">>]
      ELSE IF r2.ok THEN [result |-> r2, calls |-> <<"v2">>]
      ELSE LET r1 == parse_v1(s)
           IN  [result |-> IF r1.ok THEN r1 ELSE r2, calls |-> <<"v2", "v1">>]

\* impl FromStr: from_str is parse.
from_str(fallback, s) == parse(fallback, s)

\* impl From<&str> and impl From<String>
from_ref(s) == [value |-> s, repr |-> None, span |-> <<0, 0>>]
from_string(s) == [value |-> s, repr |-> None, span |-> <<0, 0>>]

\* The conversion to a string, had it rendered the identifier.
into_string_rendered(self) == Display(self)

\* impl From<KdlIdentifier> for String
into_string(self) == self.value


(***************************************************************************)
(* The state machine: one identifier, owned by one caller, from its        *)
(* construction to its drop.  The caller makes one call at a time; the     *)
(* call's name, input and return value stay in op, arg and ret until the   *)
(* caller takes them (Return).                                             *)
(***************************************************************************)
VARIABLES
  v1_fallback,  \* the `v1-fallback` feature of the build
  live,         \* whether the caller owns an identifier
  ident,        \* the identifier (Blank when there is none)
  before,       \* the identifier as the call in op found it
  op,           \* the last call, "idle" once its result is taken
  arg,          \* its input
  ret,          \* its return value
  calls,        \* the parsers a parse invoked, in order
  hist          \* what happened to the identifier since its construction

vars == <<v1_fallback, live, ident, before, op, arg, ret, calls, hist>>

Blank == [value |-> <<>>, repr |-> None, span |-> <<0, 0>>]
Nothing == <<>>

\* Inputs of the programmatic entry points (From, set_value, set_repr,
\* set_span): nothing validates them.
ValuePool ==
  { <<>>, <<"a">>, <<"1">>, <<"a", SPACE, "a">>, <<"a", QUOTE, "a">>,
    <<BSLASH>>, <<EACUTE>> }
ReprPool ==
  { <<>>, <<"a">>, <<QUOTE, "a", SLASH, "a", QUOTE>>, <<SPACE, "1">>, <<EACUTE>> }
SpanPool == { <<0, 0>>, <<3, 2>> }

\* The other operands an identifier is compared with: each field either the
\* identifier's own or another.
Others(a) ==
  { [value |-> v, repr |-> r, span |-> sp] :
      v \in {a.value, <<"a">>},
      r \in {a.repr, None, Some(a.value), Some(<<"a">>)},
      sp \in {a.span, <<3, 2>>} }

\* hist: src is the text a parse built the identifier from, while no
\* set_value, set_repr, clear_format or autoformat was called since (None
\* otherwise); from, the string a conversion built it from, while no set_value
\* was called since; lastRepr, the parsed text or the argument of the last
\* set_repr unless a clear_format or autoformat came after it; cleared,
\* whether clear_format or autoformat was called with no set_repr after it.
NoHist == [src |-> None, from |-> None, lastRepr |-> None, cleared |-> FALSE]

Init ==
  /\ v1_fallback \in BOOLEAN
  /\ live = FALSE
  /\ ident = Blank
  /\ before = Blank
  /\ op = "idle"
  /\ arg = Nothing
  /\ ret = Nothing
  /\ calls = <<>>
  /\ hist = NoHist

\* A call on the live identifier that returns r and leaves the identifier as
\* after, with the history h.
Call(name, input, r, after, h) ==
  /\ op = "idle"
  /\ live
  /\ op' = name
  /\ arg' = input
  /\ ret' = r
  /\ before' = ident
  /\ ident' = after
  /\ hist' = h
  /\ UNCHANGED <<v1_fallback, live, calls>>

\* KdlIdentifier::parse(t), or t.parse::<KdlIdentifier>()
Parse(t) ==
  /\ op = "idle"
  /\ ~live
  /\ LET r == from_str(v1_fallback, t)
     IN  /\ op' = "parse"
         /\ arg' = t
         /\ ret' = r.result
         /\ calls' = r.calls
         /\ live' = r.result.ok
         /\ ident' = IF r.result.ok THEN r.result.val ELSE Blank
         /\ hist' = IF r.result.ok
                    THEN [NoHist EXCEPT !.src = Some(t), !.lastRepr = Some(t)]
                    ELSE NoHist
  /\ UNCHANGED <<v1_fallback, before>>

\* KdlIdentifier::from(s), s a &str or a String
From(s, owned) ==
  /\ op = "idle"
  /\ ~live
  /\ op' = "from"
  /\ arg' = s
  /\ ident' = IF owned THEN from_string(s) ELSE from_ref(s)
  /\ ret' = ident'
  /\ live' = TRUE
  /\ hist' = [NoHist EXCEPT !.from = Some(s)]
  /\ UNCHANGED <<v1_fallback, before, calls>>

SetValue(v) ==
  Call("set_value", v, Nothing, set_value(ident, v),
       [hist EXCEPT !.src = None, !.from = None])

SetRepr(r) ==
  Call("set_repr", r, Nothing, set_repr(ident, r),
       [hist EXCEPT !.src = None, !.lastRepr = Some(r), !.cleared = FALSE])

SetSpan(sp) == Call("set_span", sp, Nothing, set_span(ident, sp), hist)

ClearFormat ==
  Call("clear_format", Nothing, Nothing, clear_format(ident),
       [hist EXCEPT !.src = None, !.lastRepr = None, !.cleared = TRUE])

Autoformat ==
  Call("autoformat", Nothing, Nothing, autoformat(ident),
       [hist EXCEPT !.src = None, !.lastRepr = None, !.cleared = TRUE])

GetValue == Call("value", Nothing, value(ident), ident, hist)
GetRepr == Call("repr", Nothing, repr(ident), ident, hist)
GetSpan == Call("span", Nothing, span(ident), ident, hist)

\* format!("{}", ident)
Format == Call("display", Nothing, Display(ident), ident, hist)
Length == Call("len", Nothing, len(ident), ident, hist)
IsEmpty == Call("is_empty", Nothing, is_empty(ident), ident, hist)

\* ident == b, with both operands hashed, as a hashed collection does.
Compare(b) ==
  Call("eq", b, [equal |-> eq(ident, b), hashSelf |-> hash(ident), hashOther |-> hash(b)],
       ident, hist)

\* String::from(ident): the identifier is consumed.
IntoString ==
  /\ op = "idle"
  /\ live
  /\ op' = "into_string"
  /\ arg' = Nothing
  /\ ret' = into_string(ident)
  /\ before' = ident
  /\ ident' = Blank
  /\ live' = FALSE
  /\ UNCHANGED <<v1_fallback, calls, hist>>

\* The identifier goes out of scope.
Drop ==
  /\ op = "idle"
  /\ live
  /\ live' = FALSE
  /\ ident' = Blank
  /\ hist' = NoHist
  /\ UNCHANGED <<v1_fallback, before, op, arg, ret, calls>>

\* The caller takes the last call's result.
Return ==
  /\ op # "idle"
  /\ op' = "idle"
  /\ arg' = Nothing
  /\ ret' = Nothing
  /\ before' = Blank
  /\ calls' = <<>>
  /\ hist' = IF live THEN hist ELSE NoHist
  /\ UNCHANGED <<v1_fallback, live, ident>>

Next ==
  \/ (~live /\ \E t \in Texts : Parse(t))
  \/ (~live /\ \E s \in ValuePool, owned \in BOOLEAN : From(s, owned))
  \/ \E v \in ValuePool : SetValue(v)
  \/ \E r \in ReprPool : SetRepr(r)
  \/ \E sp \in SpanPool : SetSpan(sp)
  \/ ClearFormat
  \/ Autoformat
  \/ GetValue
  \/ GetRepr
  \/ GetSpan
  \/ Format
  \/ Length
  \/ IsEmpty
  \/ (live /\ op = "idle" /\ \E b \in Others(ident) : Compare(b))
  \/ IntoString
  \/ Drop
  \/ Return

Spec == Init /\ [][Next]_vars


(***************************************************************************)
(* Properties.                                                             *)
(***************************************************************************)

\* C1. Round trip: an identifier built by parse from a text t keeps t as its
\* repr and renders as t, as long as no set_value, set_repr, clear_format or
\* autoformat was called since.
C1_RoundTrip ==
  (live /\ hist.src # None) =>
    LET t == hist.src[1]
    IN  /\ ident.repr = Some(t)
        /\ Display(ident) = t
        /\ (op = "display" => ret = t)
        /\ (op = "parse" => arg = t /\ ret.ok /\ ret.val.repr = Some(t))

\* A parsed quoted token with an escape, rendered untouched.
C1_Witness ==
  /\ live
  /\ op = "display"
  /\ hist.src = Some(<<QUOTE, BSLASH, QUOTE, QUOTE>>)
  /\ ident.value = <<QUOTE>>
  /\ ret = <<QUOTE, BSLASH, QUOTE, QUOTE>>

\* C2. a == b exactly when the values and the reprs are equal; the span has
\* no part in it; equal identifiers write the same data to the hasher; an
\* identifier without a repr never equals one with a repr.
C2_EqHash ==
  op = "eq" =>
    /\ ret.equal <=> (ident.value = arg.value /\ ident.repr = arg.repr)
    /\ \A sp \in SpanPool \cup {ident.span, arg.span} :
         eq(ident, [arg EXCEPT !.span = sp]) = ret.equal
    /\ ret.equal => ret.hashSelf = ret.hashOther
    /\ ((ident.repr = None) # (arg.repr = None)) => ~ret.equal

\* Equal identifiers with different spans.
C2_Witness ==
  /\ op = "eq"
  /\ ret.equal
  /\ ident.span # arg.span
  /\ ident.repr # None
  /\ ret.hashSelf = ret.hashOther

\* C3. When the v2 parse of t fails: with the fallback on and the legacy
\* parse failing too, parse returns the v2 error, never the legacy one; with
\* the fallback off it returns the v2 error and does not invoke the legacy
\* parser.
C3_ErrorShadowing ==
  op = "parse" =>
    LET r2 == try_parse_identifier(arg)
        r1 == parse_v1(arg)
    IN  /\ (v1_fallback /\ ~r2.ok /\ ~r1.ok) =>
              (ret = r2 /\ ret # r1 /\ ret.err.grammar = "v2")
        /\ (~v1_fallback /\ ~r2.ok) => (ret = r2 /\ calls = <<"v2">>)

\* Both parsers were tried on a text neither accepts.
C3_Witness ==
  /\ op = "parse"
  /\ v1_fallback
  /\ arg = <<"1", "a">>
  /\ calls = <<"v2", "v1">>
  /\ ~ret.ok
  /\ ret.err.grammar = "v2"
  /\ ~parse_v1(arg).ok

C5_ReprVerbatim ==
  op = "display" =>
    ret = IF hist.lastRepr # None THEN hist.lastRepr[1]
          ELSE KdlValueString(ident.value)

\* A custom repr rendered after the value was changed under it.
C5_Witness ==
  /\ op = "display"
  /\ hist.lastRepr = Some(<<QUOTE, "a", SLASH, "a", QUOTE>>)
  /\ hist.src = None
  /\ ident.value = <<"a", QUOTE, "a">>
  /\ ret = <<QUOTE, "a", SLASH, "a", QUOTE>>

\* The value is a token the v2 grammar accepts bare: it parses to itself.
LegalBare(v) ==
  LET r == try_parse_identifier(v) IN r.ok /\ r.val.value = v

\* C6. After clear_format or autoformat, rendering yields the value itself
\* when it is a legal bare token, else a quoted form that parses back to the
\* same value.
C6_Autoformat ==
  (op = "display" /\ hist.cleared) =>
    IF LegalBare(ident.value) THEN ret = ident.value
    ELSE /\ ret # ident.value
         /\ Len(ret) >= 2 /\ ret[1] = QUOTE /\ ret[Len(ret)] = QUOTE
         /\ LET p == parse(v1_fallback, ret).result
            IN  p.ok /\ p.val.value = ident.value

\* foo"bar, reset and rendered.
C6_Witness ==
  /\ op = "display"
  /\ hist.cleared
  /\ ident.value = <<"a", QUOTE, "a">>
  /\ ret = <<QUOTE, "a", BSLASH, QUOTE, "a", QUOTE>>

StartsWithDigit(t) == Len(t) >= 1 /\ t[1] \in Digits
ContainsWhitespace(t) == \E i \in 1..Len(t) : t[i] = SPACE

\* Whether a quote closes the quoted token whose body starts s.
RECURSIVE HasClosingQuote(_)
HasClosingQuote(s) ==
  IF s = <<>> THEN FALSE
  ELSE IF Head(s) = QUOTE THEN TRUE
  ELSE IF Head(s) = BSLASH THEN HasClosingQuote(SubSeq(s, 3, Len(s)))
  ELSE HasClosingQuote(Tail(s))

UnterminatedQuote(t) == Len(t) >= 1 /\ t[1] = QUOTE /\ ~HasClosingQuote(Tail(t))

\* Whitespace that is not between the quotes of a quote-delimited text.
WhitespaceOutsideQuotes(t) ==
  \E i \in 1..Len(t) :
    /\ t[i] = SPACE
    /\ ~(Len(t) >= 2 /\ t[1] = QUOTE /\ t[Len(t)] = QUOTE /\ 1 < i /\ i < Len(t))

\* Every parse returns an identifier or an error, and an identifier exists
\* afterwards exactly when it returned one.
AllOrNothing ==
  /\ ret.ok <=> live
  /\ ret.ok => ident = ret.val
  /\ ~ret.ok => ident = Blank

\* C7 as stated: every input that starts with a digit, contains whitespace
\* or opens a quote it does not close is rejected.
C7_Original ==
  op = "parse" =>
    /\ (StartsWithDigit(arg) \/ ContainsWhitespace(arg) \/ UnterminatedQuote(arg))
         => (~ret.ok /\ ~live)
    /\ AllOrNothing

\* C7, amended. Every input that starts with a digit, has whitespace outside
\* a quote-delimited token or opens a quote it does not close is rejected,
\* and parse is all-or-nothing.
C7_Rejects ==
  op = "parse" =>
    /\ (StartsWithDigit(arg) \/ WhitespaceOutsideQuotes(arg) \/ UnterminatedQuote(arg))
         => (~ret.ok /\ ~live)
    /\ AllOrNothing

\* A padded token, rejected.
C7_Witness ==
  /\ op = "parse"
  /\ arg = <<SPACE, "a", SPACE>>
  /\ ~ret.ok
  /\ ~live
  /\ ident = Blank

\* C8. len() is the byte length of the rendered form, and is_empty() holds
\* exactly when the rendered form is empty.
C8_Len ==
  /\ op = "len" => ret = ByteLen(Display(ident))
  /\ op = "is_empty" => /\ ret <=> (Display(ident) = <<>>)
                        /\ ret <=> (len(ident) = 0)

\* A two-byte rendering of a three-character value.
C8_Witness ==
  /\ op = "len"
  /\ ident.repr = Some(<<EACUTE>>)
  /\ ident.value = <<"a", SPACE, "a">>
  /\ ret = 2

\* C9. Conversion from a string keeps it as the value, with no repr and the
\* empty span, whatever the string; conversion to a string yields the value;
\* so a string converted and converted back is unchanged.
C9_Conversions ==
  /\ op = "from" =>
       /\ live
       /\ ident = [value |-> arg, repr |-> None, span |-> <<0, 0>>]
       /\ ret = ident
  /\ op = "into_string" =>
       /\ ret = before.value
       /\ hist.from # None => ret = hist.from[1]

\* A string no grammar accepts, converted and converted back.
C9_Witness ==
  /\ op = "into_string"
  /\ hist.from = Some(<<"a", QUOTE, "a">>)
  /\ before.repr # None
  /\ ret = <<"a", QUOTE, "a">>

\* C10. set_value changes only the value (a repr is kept and still
\* rendered), set_repr only the repr, set_span only the span; clear_format
\* and autoformat have the same effect, set only the repr to none, and are
\* idempotent.
C10_Frame ==
  /\ op = "set_value" =>
       /\ ident = [value |-> arg, repr |-> before.repr, span |-> before.span]
       /\ before.repr # None => Display(ident) = before.repr[1]
  /\ op = "set_repr" =>
       ident = [value |-> before.value, repr |-> Some(arg), span |-> before.span]
  /\ op = "set_span" =>
       ident = [value |-> before.value, repr |-> before.repr, span |-> arg]
  /\ op \in {"clear_format", "autoformat"} =>
       /\ ident = [value |-> before.value, repr |-> None, span |-> before.span]
       /\ clear_format(before) = autoformat(before)
       /\ clear_format(ident) = ident
       /\ autoformat(ident) = ident

\* A new value under a kept repr.
C10_Witness ==
  /\ op = "set_value"
  /\ before.repr = Some(<<"a">>)
  /\ before.value = <<"a">>
  /\ ident.value = <<"1">>
  /\ Display(ident) = <<"a">>

====
